---- MODULE Spec2Model ----
(***************************************************************************)
(* Model of app.py: the Flask inventory dashboard.  One request is served  *)
(* at a time: the handler runs from the arrival of the request to its      *)
(* response without suspending, posts its GraphQL query to the catalog on  *)
(* the way, and answers with a rendered page, a 404 or a 500.              *)
(*                                                                         *)
(* Python values are encoded as follows.  An optional value (a JSON null,   *)
(* or a key that may be missing) is a sequence of length 0 or 1.  A JSON    *)
(* string that the code parses (the metafield value) is a sequence of       *)
(* one-character strings.  The Python None handed to a template is the      *)
(* string NoneValue.                                                        *)
(***************************************************************************)
EXTENDS Integers, Sequences, FiniteSets, TLC

VARIABLES
    CATEGORIES,     \* the module-level registry dict (app.py 26-31)
    pc,             \* "idle": waiting for a request; "done": a response is ready
    route,          \* which handler the request was routed to
    category_slug,  \* the <category_slug> path parameter ("" on the / route)
    data,           \* what run_graphql_query returned to the handler
    calls,          \* number of requests.post calls made during this request
    status,         \* HTTP status of the response (0 while none is produced)
    fault,          \* the exception that escaped the handler ("" if none)
    template,       \* the template handed to render_template
    products,       \* the products= argument of render_template
    page_title,     \* the page_title= argument of render_template
    all_products,   \* show_category's local: what process_product_edges returned
    warm            \* whether a request has been answered since the process started

vars == <<CATEGORIES, pc, route, category_slug, data, calls, status, fault,
          template, products, page_title, all_products, warm>>

(***************************************************************************)
(* Bounds of the model.                                                    *)
(***************************************************************************)
MaxEdges == 2       \* longest edge list a catalog reply carries

NoneValue == "None"

\* app.py 26-31
InitialCategories ==
    [s \in {"simple", "2-button", "7-button", "quilt"} |->
        CASE s = "simple"   -> [tag |-> "HJMQS",  title |-> "Simple"]
          [] s = "2-button" -> [tag |-> "HJMQ2B", title |-> "2 Button"]
          [] s = "7-button" -> [tag |-> "HJMQ7B", title |-> "7 Button"]
          [] s = "quilt"    -> [tag |-> "HJMQQ",  title |-> "Quilt"]]

(***************************************************************************)
(* Inputs: the path of the request and the reply of the catalog.           *)
(***************************************************************************)
Slugs == DOMAIN InitialCategories \cup {"bogus"}

\* How a product presents itself: with or without the title key (<<>>: the
\* key is missing) and with or without a featured image (<<>>: null).
Presentations ==
    {[title |-> <<"X">>, featuredImage |-> <<[url |-> "x.png"]>>],
     [title |-> <<"Y">>, featuredImage |-> <<>>],
     [title |-> <<>>,    featuredImage |-> <<>>]}
\* variants(first: 1).edges: no variant, or one with its inventoryQuantity.
\* The global view ranks by -quantity and needs two negative quantities to
\* have anything to order; the category view ranks by threshold - quantity.
UrgentQuantities == {-2, -1, 0, 1}
CategoryQuantities == {-1, 0, 1}
Variants(Quantities) == {<<>>} \cup {<<q>> : q \in Quantities}
MetafieldValues == {<<"1", "0">>, <<"x">>}   \* "10" and "x"
Metafields == {<<>>} \cup {<<[value |-> v]>> : v \in MetafieldValues}

Edge(p, v, m) ==
    [title |-> p.title, featuredImage |-> p.featuredImage, variants |-> v,
     metafield |-> m]

\* The / query projects no metafield (app.py 83-95); the category query
\* does (app.py 153-162).
UrgentEdges ==
    {Edge(p, v, <<>>) : p \in Presentations, v \in Variants(UrgentQuantities)}
CategoryEdges ==
    {Edge(p, v, m) : p \in Presentations, v \in Variants(CategoryQuantities),
                     m \in Metafields}

SeqUpTo(S, n) == UNION {[1..k -> S] : k \in 0..n}

\* What requests.post / raise_for_status / response.json() can give:
\*   RequestException   connection error or 4xx/5xx status
\*   errors             {"errors": [...]}
\*   nodata             a document without the data/products/edges path
\*   nulledges          {"data": {"products": {"edges": null}}}
\*   edges              {"data": {"products": {"edges": [...]}}}
Replies(EdgeSet) ==
    {[kind |-> k, edges |-> <<>>] : k \in {"RequestException", "errors", "nodata", "nulledges"}}
    \cup {[kind |-> "edges", edges |-> es] : es \in SeqUpTo(EdgeSet, MaxEdges)}

(***************************************************************************)
(* int(str): Python's integer literal parser, as far as ASCII goes.        *)
(* Surrounding whitespace is stripped, one sign is allowed, and the rest    *)
(* must be decimal digits, optionally grouped by single underscores.        *)
(* Anything else raises ValueError (ok = FALSE).                            *)
(***************************************************************************)
DigitChars == <<"0", "1", "2", "3", "4", "5", "6", "7", "8", "9">>
IsDigit(c) == \E i \in 1..Len(DigitChars) : DigitChars[i] = c
DigitValue(c) == (CHOOSE i \in 1..Len(DigitChars) : DigitChars[i] = c) - 1
IsSpace(c) == c \in {" ", "\t", "\n", "\r"}

RECURSIVE LStrip(_)
LStrip(s) == IF s # <<>> /\ IsSpace(Head(s)) THEN LStrip(Tail(s)) ELSE s

RECURSIVE RStrip(_)
RStrip(s) ==
    IF s # <<>> /\ IsSpace(s[Len(s)]) THEN RStrip(SubSeq(s, 1, Len(s) - 1)) ELSE s

ValidDigits(b) ==
    /\ b # <<>>
    /\ \A i \in 1..Len(b) : IsDigit(b[i]) \/ b[i] = "_"
    /\ b[1] # "_"
    /\ b[Len(b)] # "_"
    /\ \A i \in 1..(Len(b) - 1) : ~(b[i] = "_" /\ b[i + 1] = "_")

RECURSIVE DigitsValue(_, _)
DigitsValue(b, acc) ==
    IF b = <<>> THEN acc
    ELSE IF Head(b) = "_" THEN DigitsValue(Tail(b), acc)
    ELSE DigitsValue(Tail(b), 10 * acc + DigitValue(Head(b)))

int(s) ==
    LET t == RStrip(LStrip(s))
        signed == t # <<>> /\ t[1] \in {"+", "-"}
        b == IF signed THEN Tail(t) ELSE t
    IN  IF ValidDigits(b)
        THEN [ok |-> TRUE,
              value |-> IF signed /\ t[1] = "-" THEN 0 - DigitsValue(b, 0)
                        ELSE DigitsValue(b, 0)]
        ELSE [ok |-> FALSE, value |-> 0]

(***************************************************************************)
(* run_graphql_query: one requests.post; a RequestException is caught and  *)
(* None is returned, otherwise the parsed JSON document is.                 *)
(***************************************************************************)
NoneData == [kind |-> "None", edges |-> <<>>]

\* A client that posts the query a second time after a RequestException.
run_graphql_query_retrying(reply) ==
    [value |-> IF reply.kind = "RequestException" THEN NoneData ELSE reply,
     posts |-> IF reply.kind = "RequestException" THEN 2 ELSE 1]

run_graphql_query(reply) ==
    [value |-> IF reply.kind = "RequestException" THEN NoneData ELSE reply,
     posts |-> 1]

\* data.get('data', {}).get('products', {}).get('edges', [])
ProductEdges(d) ==
    CASE d.kind = "edges"     -> [none |-> FALSE, list |-> d.edges]
      [] d.kind = "nulledges" -> [none |-> TRUE,  list |-> <<>>]
      [] OTHER                -> [none |-> FALSE, list |-> <<>>]

\* node['featuredImage']['url'] if node['featuredImage'] else None
ImageUrl(node) ==
    IF node.featuredImage # <<>> THEN node.featuredImage[1].url ELSE NoneValue

(***************************************************************************)
(* process_product_edges.  The result is [fault, value]: fault is the      *)
(* exception the call raised ("" if it returned), value what it returned.  *)
(***************************************************************************)
\* The loop body without lines 55-56: the annotation is never read.
NormalizeEdgeWithoutThreshold(node) ==
    LET current_qty == IF node.variants # <<>> THEN node.variants[1] ELSE 0
    IN  IF node.title = <<>> THEN [fault |-> "KeyError", value |-> <<>>]
        ELSE [fault |-> "",
              value |-> <<[title |-> node.title[1],
                           image_url |-> ImageUrl(node),
                           current_qty |-> current_qty,
                           threshold |-> 0]>>]

\* The body of the for loop, app.py 51-64, in the order it evaluates.
NormalizeEdge(node) ==
    LET current_qty == IF node.variants # <<>> THEN node.variants[1] ELSE 0
        parsed == IF node.metafield # <<>> THEN int(node.metafield[1].value)
                  ELSE [ok |-> TRUE, value |-> 0]
    IN  IF ~parsed.ok THEN [fault |-> "ValueError", value |-> <<>>]
        ELSE IF node.title = <<>> THEN [fault |-> "KeyError", value |-> <<>>]
        ELSE [fault |-> "",
              value |-> <<[title |-> node.title[1],
                           image_url |-> ImageUrl(node),
                           current_qty |-> current_qty,
                           threshold |-> parsed.value]>>]

RECURSIVE NormalizeLoop(_, _)
NormalizeLoop(edges, processed_products) ==
    IF edges = <<>> THEN [fault |-> "", value |-> processed_products]
    ELSE LET r == NormalizeEdge(Head(edges))
         IN  IF r.fault # "" THEN r
             ELSE NormalizeLoop(Tail(edges), processed_products \o r.value)

process_product_edges(edges) ==
    IF edges.none \/ edges.list = <<>> THEN [fault |-> "", value |-> <<>>]
    ELSE NormalizeLoop(edges.list, <<>>)

(***************************************************************************)
(* sorted(products_to_display, key=needed_qty, reverse=True): Python's     *)
(* sort is stable, and reverse=True keeps the original order of equal keys. *)
(***************************************************************************)
\* The sort of an ascending sort that is reversed afterwards: equal keys end
\* up in the reverse of their arrival order.
RECURSIVE InsertDescendingReversed(_, _)
InsertDescendingReversed(p, s) ==
    IF s = <<>> THEN <<p>>
    ELSE IF Head(s).needed_qty > p.needed_qty
         THEN <<Head(s)>> \o InsertDescendingReversed(p, Tail(s))
         ELSE <<p>> \o s

RECURSIVE InsertDescending(_, _)
InsertDescending(p, s) ==
    IF s = <<>> THEN <<p>>
    ELSE IF Head(s).needed_qty >= p.needed_qty
         THEN <<Head(s)>> \o InsertDescending(p, Tail(s))
         ELSE <<p>> \o s

RECURSIVE SortLoop(_, _)
SortLoop(rest, done) ==
    IF rest = <<>> THEN done
    ELSE SortLoop(Tail(rest), InsertDescending(Head(rest), done))

sorted(products_to_display) == SortLoop(products_to_display, <<>>)

(***************************************************************************)
(* show_urgent after the query returned, app.py 104-135.                   *)
(***************************************************************************)
\* Zero stock taken for negative stock.
UrgentEligibleOrZero(current_qty) == current_qty <= 0

\* app.py 120
UrgentEligible(current_qty) == current_qty < 0

\* The body of the for loop, app.py 113-127.
UrgentEdge(node) ==
    IF node.variants = <<>> THEN [fault |-> "", value |-> <<>>]
    ELSE LET current_qty == node.variants[1]
         IN  IF ~UrgentEligible(current_qty) THEN [fault |-> "", value |-> <<>>]
             ELSE IF node.title = <<>> THEN [fault |-> "KeyError", value |-> <<>>]
             ELSE [fault |-> "",
                   value |-> <<[title |-> node.title[1],
                                image_url |-> ImageUrl(node),
                                current_qty |-> current_qty,
                                needed_qty |-> 0 - current_qty]>>]

\* A loop that stops at the first product without variants instead of
\* going on to the next product.
RECURSIVE UrgentLoopBreaking(_, _)
UrgentLoopBreaking(edges, products_to_display) ==
    IF edges = <<>> \/ Head(edges).variants = <<>>
    THEN [fault |-> "", value |-> products_to_display]
    ELSE LET r == UrgentEdge(Head(edges))
         IN  IF r.fault # "" THEN r
             ELSE UrgentLoopBreaking(Tail(edges), products_to_display \o r.value)

RECURSIVE UrgentLoop(_, _)
UrgentLoop(edges, products_to_display) ==
    IF edges = <<>> THEN [fault |-> "", value |-> products_to_display]
    ELSE LET r == UrgentEdge(Head(edges))
         IN  IF r.fault # "" THEN r
             ELSE UrgentLoop(Tail(edges), products_to_display \o r.value)

\* The outcome of show_urgent for the value run_graphql_query returned.
\* data is None: the condition of line 104 holds and line 105 calls
\* data.get on None, which raises AttributeError.
UrgentOutcome(d) ==
    IF d.kind = "None" THEN [fault |-> "AttributeError", products |-> <<>>]
    ELSE IF d.kind = "errors" THEN [fault |-> "", products |-> <<>>]
    ELSE LET product_edges == ProductEdges(d)
         IN  IF product_edges.none THEN [fault |-> "TypeError", products |-> <<>>]
             ELSE LET r == UrgentLoop(product_edges.list, <<>>)
                  IN  IF r.fault # "" THEN [fault |-> r.fault, products |-> <<>>]
                      ELSE [fault |-> "", products |-> sorted(r.value)]

(***************************************************************************)
(* show_category after the query returned, app.py 173-198.                 *)
(***************************************************************************)
\* A product exactly at its threshold taken for one below it.
CategoryEligibleOrZero(needed_qty) == needed_qty >= 0

\* app.py 188
CategoryEligible(needed_qty) == needed_qty > 0

\* app.py 185-190
RECURSIVE CategoryLoop(_, _)
CategoryLoop(products_in, products_to_display) ==
    IF products_in = <<>> THEN products_to_display
    ELSE LET product == Head(products_in)
             needed_qty == product.threshold - product.current_qty
         IN  IF CategoryEligible(needed_qty)
             THEN CategoryLoop(Tail(products_in),
                      Append(products_to_display,
                             [title |-> product.title,
                              image_url |-> product.image_url,
                              current_qty |-> product.current_qty,
                              threshold |-> product.threshold,
                              needed_qty |-> needed_qty]))
             ELSE CategoryLoop(Tail(products_in), products_to_display)

\* [fault, products, all_products]
CategoryOutcome(d) ==
    IF d.kind \in {"None", "errors"}
    THEN [fault |-> "", products |-> <<>>, all_products |-> <<>>]
    ELSE LET r == process_product_edges(ProductEdges(d))
         IN  IF r.fault # ""
             THEN [fault |-> r.fault, products |-> <<>>, all_products |-> <<>>]
             ELSE [fault |-> "",
                   products |-> sorted(CategoryLoop(r.value, <<>>)),
                   all_products |-> r.value]

(***************************************************************************)
(* The server.                                                             *)
(***************************************************************************)
Init ==
    /\ CATEGORIES = InitialCategories
    /\ pc = "idle"
    /\ route = ""
    /\ category_slug = ""
    /\ data = NoneData
    /\ calls = 0
    /\ status = 0
    /\ fault = ""
    /\ template = ""
    /\ products = <<>>
    /\ page_title = ""
    /\ all_products = <<>>
    /\ warm = FALSE

\* The check of line 143 left out.
SlugRecognizedAlways(slug) == TRUE

\* app.py 143
SlugRecognized(slug) == slug \in DOMAIN CATEGORIES

\* GET /: show_urgent from its query to its return, or to the exception it
\* raises (Flask answers an unhandled exception with a 500).
show_urgent ==
    /\ pc = "idle"
    /\ \E reply \in Replies(UrgentEdges) :
        LET r == run_graphql_query(reply)
            o == UrgentOutcome(r.value)
        IN  /\ data' = r.value
            /\ calls' = r.posts
            /\ fault' = o.fault
            /\ status' = IF o.fault = "" THEN 200 ELSE 500
            /\ template' = IF o.fault = "" THEN "urgent_page.html" ELSE ""
            /\ products' = o.products
            /\ page_title' = IF o.fault = "" THEN "Urgent" ELSE ""
    /\ pc' = "done"
    /\ route' = "show_urgent"
    /\ category_slug' = ""
    /\ UNCHANGED <<CATEGORIES, all_products, warm>>

\* GET /<slug>: show_category.  An unknown slug is answered by abort(404)
\* before anything else happens; otherwise the handler runs from its query
\* to its return or to the exception it raises.  registry is the value the
\* registry has when the handler is left.
CategoryRequest(slug, registry) ==
    /\ pc = "idle"
    /\ IF ~SlugRecognized(slug)
       THEN /\ status' = 404
            /\ UNCHANGED <<data, calls, fault, template, products, page_title,
                           all_products>>
       ELSE \E reply \in Replies(CategoryEdges) :
            LET r == run_graphql_query(reply)
                o == CategoryOutcome(r.value)
                category == IF slug \in DOMAIN CATEGORIES THEN CATEGORIES[slug]
                            ELSE [tag |-> "", title |-> ""]
            IN  /\ data' = r.value
                /\ calls' = r.posts
                /\ fault' = o.fault
                /\ status' = IF o.fault = "" THEN 200 ELSE 500
                /\ template' = IF o.fault = "" THEN "category_page.html" ELSE ""
                /\ products' = o.products
                /\ all_products' = o.all_products
                /\ page_title' = IF o.fault = "" THEN category.title ELSE ""
    /\ pc' = "done"
    /\ route' = "show_category"
    /\ category_slug' = slug
    /\ CATEGORIES' = registry
    /\ UNCHANGED warm

\* A handler that pops the entry it served from the registry.
show_category_popping(slug) ==
    CategoryRequest(slug, [s \in DOMAIN CATEGORIES \ {slug} |-> CATEGORIES[s]])

show_category(slug) == CategoryRequest(slug, CATEGORIES)

\* The response leaves; everything the request built is dropped.
Respond ==
    /\ pc = "done"
    /\ pc' = "idle"
    /\ route' = ""
    /\ category_slug' = ""
    /\ data' = NoneData
    /\ calls' = 0
    /\ status' = 0
    /\ fault' = ""
    /\ template' = ""
    /\ products' = <<>>
    /\ page_title' = ""
    /\ all_products' = <<>>
    /\ warm' = TRUE
    /\ UNCHANGED CATEGORIES

Next ==
    \/ show_urgent
    \/ \E slug \in Slugs : show_category(slug)
    \/ Respond

Spec == Init /\ [][Next]_vars

(***************************************************************************)
(* Vocabulary of the properties.                                           *)
(***************************************************************************)
Answered == pc = "done"
UrgentView == Answered /\ route = "show_urgent"
CategoryView ==
    Answered /\ route = "show_category" /\ category_slug \in DOMAIN CATEGORIES

\* The catalog call failed: TransportFailure, or an error payload.
CatalogFailed == data.kind \in {"None", "errors"}
\* The edges the catalog delivered.
Fetched == IF data.kind = "edges" THEN data.edges ELSE <<>>
TitlesPresent == \A i \in 1..Len(Fetched) : Fetched[i].title # <<>>

\* currentQuantity of an edge: the first variant's quantity, 0 without variants.
CurrentQuantity(e) == IF e.variants = <<>> THEN 0 ELSE e.variants[1]
ImageOf(e) == IF e.featuredImage = <<>> THEN NoneValue ELSE e.featuredImage[1].url

\* Decimal notation of an integer, as a sequence of characters.
RECURSIVE NatDecimal(_)
NatDecimal(n) ==
    IF n < 10 THEN <<DigitChars[n + 1]>>
    ELSE NatDecimal(n \div 10) \o <<DigitChars[(n % 10) + 1]>>
Decimal(n) == IF n < 0 THEN <<"-">> \o NatDecimal(0 - n) ELSE NatDecimal(n)
Denotes(v, n) == Decimal(n) = v
IsIntegerLiteral(v) == \E n \in -99..99 : Denotes(v, n)

\* out holds exactly the records src[i], i in idx, each once.
ExactlyOnce(out, src, idx) ==
    \E f \in [1..Len(out) -> idx] :
        /\ \A k, l \in 1..Len(out) : k # l => f[k] # f[l]
        /\ \A i \in idx : \E k \in 1..Len(out) : f[k] = i
        /\ \A k \in 1..Len(out) : out[k] = src[f[k]]

\* out is src[i], i in idx, by descending needed_qty, ties in order of i.
StablyRanked(out, src, idx) ==
    \E f \in [1..Len(out) -> idx] :
        /\ \A i \in idx : \E k \in 1..Len(out) : f[k] = i
        /\ \A k \in 1..Len(out) : out[k] = src[f[k]]
        /\ \A k, l \in 1..Len(out) :
            k < l => \/ out[k].needed_qty > out[l].needed_qty
                     \/ /\ out[k].needed_qty = out[l].needed_qty
                        /\ f[k] < f[l]

\* The alert record of the global policy for an edge.
UrgentAlert(e) ==
    [title |-> IF e.title = <<>> THEN NoneValue ELSE e.title[1],
     image_url |-> ImageOf(e),
     current_qty |-> CurrentQuantity(e),
     needed_qty |-> 0 - CurrentQuantity(e)]
UrgentAlerts == [i \in 1..Len(Fetched) |-> UrgentAlert(Fetched[i])]
NegativeStock == {i \in 1..Len(Fetched) : CurrentQuantity(Fetched[i]) < 0}

\* The alert record of the threshold policy for a normalized product.
CategoryAlert(p) ==
    [title |-> p.title, image_url |-> p.image_url, current_qty |-> p.current_qty,
     threshold |-> p.threshold, needed_qty |-> p.threshold - p.current_qty]
CategoryAlerts == [i \in 1..Len(all_products) |-> CategoryAlert(all_products[i])]
BelowThreshold ==
    {i \in 1..Len(all_products) :
        all_products[i].threshold - all_products[i].current_qty > 0}

(***************************************************************************)
(* C1.  In the global view and in every recognized category view, a        *)
(* catalog call that ends in a TransportFailure (run_graphql_query returns *)
(* None) or in an error payload is answered with a rendered page whose     *)
(* product list is empty, and no exception leaves the handler.             *)
(***************************************************************************)
C1_FailureYieldsEmptyList ==
    ((UrgentView \/ CategoryView) /\ CatalogFailed)
        => (status = 200 /\ fault = "" /\ template # "" /\ products = <<>>)

(***************************************************************************)
(* C2.  Global negative-stock policy: when the catalog call succeeded and  *)
(* the global view produced a list, the list holds exactly the fetched     *)
(* products with currentQuantity < 0, each once, and every record in it    *)
(* has current_qty < 0 and needed_qty = -current_qty > 0.                  *)
(***************************************************************************)
C2_GlobalNegativeStockPolicy ==
    (UrgentView /\ ~CatalogFailed /\ status = 200)
        => /\ ExactlyOnce(products, UrgentAlerts, NegativeStock)
           /\ \A k \in 1..Len(products) :
                /\ products[k].current_qty < 0
                /\ products[k].needed_qty = 0 - products[k].current_qty
                /\ products[k].needed_qty > 0

\* C2: quantities [-1, 0] arrive, and only the first product is listed, with
\* needed_qty 1.
C2_Witness ==
    /\ UrgentView /\ status = 200
    /\ Len(Fetched) = 2
    /\ Fetched[1].variants = <<-1>>
    /\ Fetched[2].variants = <<0>>
    /\ Len(products) = 1
    /\ products[1].needed_qty = 1

(***************************************************************************)
(* C3.  Per-category threshold policy: when the catalog call succeeded and *)
(* a recognized category view produced a list, the list holds exactly the  *)
(* normalized products with threshold - current_qty > 0, each once, and    *)
(* every record in it has needed_qty = threshold - current_qty.            *)
(***************************************************************************)
C3_CategoryThresholdPolicy ==
    (CategoryView /\ ~CatalogFailed /\ status = 200)
        => /\ ExactlyOnce(products, CategoryAlerts, BelowThreshold)
           /\ \A k \in 1..Len(products) :
                /\ products[k].needed_qty
                     = products[k].threshold - products[k].current_qty
                /\ products[k].needed_qty > 0

\* C3: threshold 10 with quantity -1 is listed with needed_qty 11, and the
\* product without threshold and with quantity 0 (difference 0) is left out.
C3_Witness ==
    /\ CategoryView /\ status = 200
    /\ Len(all_products) = 2
    /\ all_products[1].threshold = 0 /\ all_products[1].current_qty = 0
    /\ all_products[2].threshold = 10 /\ all_products[2].current_qty = -1
    /\ Len(products) = 1
    /\ products[1].needed_qty = 11

(***************************************************************************)
(* C4.  In both views the list is in descending order of needed_qty, and   *)
(* records with equal needed_qty keep the order in which their edges       *)
(* arrived from the catalog.                                               *)
(***************************************************************************)
C4_StableDescendingRanking ==
    /\ (UrgentView /\ ~CatalogFailed /\ status = 200)
         => StablyRanked(products, UrgentAlerts, NegativeStock)
    /\ (CategoryView /\ ~CatalogFailed /\ status = 200)
         => StablyRanked(products, CategoryAlerts, BelowThreshold)

\* C4: X and Y arrive in this order with the same needed_qty and are listed
\* in this order.
C4_Witness ==
    /\ UrgentView /\ status = 200
    /\ Len(Fetched) = 2
    /\ Fetched[1].title = <<"X">> /\ Fetched[2].title = <<"Y">>
    /\ Len(products) = 2
    /\ products[1].needed_qty = products[2].needed_qty
    /\ products[1].title = "X" /\ products[2].title = "Y"

(***************************************************************************)
(* C5.  A request whose slug is not in the registry is answered with 404,  *)
(* and run_graphql_query is not invoked during that request.               *)
(***************************************************************************)
C5_UnknownSlugNotFound ==
    (Answered /\ route = "show_category" /\ category_slug \notin DOMAIN CATEGORIES)
        => (status = 404 /\ calls = 0 /\ template = "")

\* C5: an unknown slug has been answered.
C5_Witness ==
    /\ Answered /\ route = "show_category"
    /\ category_slug = "bogus"
    /\ status = 404

(***************************************************************************)
(* C6.  A fetched product record without the title key makes the request   *)
(* in which it was fetched fail visibly, in the global view and in the     *)
(* category view, whatever its quantity or threshold.                      *)
(***************************************************************************)
C6_MissingTitleFailsRequest ==
    (Answered /\ \E i \in 1..Len(Fetched) : Fetched[i].title = <<>>)
        => (status = 500 /\ fault # "")

(***************************************************************************)
(* C7.  process_product_edges returns one record per edge, in the order of *)
(* the edges, with current_qty the first variant's quantity (0 without     *)
(* variants), threshold the integer value of the annotation (0 without     *)
(* annotation) and image_url the featured image's URL (None without        *)
(* image); an empty or absent edge list gives the empty sequence.          *)
(***************************************************************************)
NormalizedAsSpecified ==
    /\ fault = ""
    /\ Len(all_products) = Len(Fetched)
    /\ \A i \in 1..Len(Fetched) :
        /\ all_products[i].title = Fetched[i].title[1]
        /\ all_products[i].current_qty = CurrentQuantity(Fetched[i])
        /\ all_products[i].image_url = ImageOf(Fetched[i])
        /\ IF Fetched[i].metafield = <<>>
           THEN all_products[i].threshold = 0
           ELSE Denotes(Fetched[i].metafield[1].value, all_products[i].threshold)

ThresholdsAreIntegers ==
    \A i \in 1..Len(Fetched) :
        Fetched[i].metafield # <<>> => IsIntegerLiteral(Fetched[i].metafield[1].value)

\* C7 as claimed: for every edge sequence with titles present.
C7_NormalizerTotalOnTitledEdges ==
    (CategoryView /\ ~CatalogFailed /\ TitlesPresent) => NormalizedAsSpecified

\* C7 as amended: for every edge sequence with titles present whose present
\* threshold annotations are integer literals, process_product_edges returns
\* the records described above.
C7_NormalizerOnIntegerThresholds ==
    (CategoryView /\ ~CatalogFailed /\ TitlesPresent /\ ThresholdsAreIntegers)
        => NormalizedAsSpecified

\* C7: a product without variants and without image, then one with threshold
\* "10" and an image, normalized in this order.
C7_Witness ==
    /\ CategoryView /\ fault = ""
    /\ Len(Fetched) = 2
    /\ Fetched[1].variants = <<>> /\ Fetched[1].featuredImage = <<>>
    /\ Fetched[1].metafield = <<>>
    /\ Fetched[2].metafield = <<[value |-> <<"1", "0">>]>>
    /\ Fetched[2].featuredImage # <<>>
    /\ Len(all_products) = 2
    /\ all_products[1].current_qty = 0 /\ all_products[1].threshold = 0
    /\ all_products[2].threshold = 10

(***************************************************************************)
(* C8.  Every request to the global view or to a recognized category view  *)
(* invokes the catalog exactly once, whether the call succeeds or fails,   *)
(* and no response exists before that call has been made.                  *)
(***************************************************************************)
C8_ExactlyOneCatalogCall ==
    /\ (UrgentView \/ CategoryView) => calls = 1
    /\ ~Answered => (calls = 0 /\ status = 0)

\* C8: the call failed and the request was answered after that one call.
C8_Witness == UrgentView /\ data.kind = "None" /\ calls = 1 /\ status # 0

(***************************************************************************)
(* C9.  No handler changes state that outlives the request: the registry   *)
(* keeps its initial entries, so a category request is answered as the     *)
(* first request with that slug would be: 404 exactly for the slugs that   *)
(* were never registered, and otherwise under the category's title.        *)
(***************************************************************************)
C9_RegistryNeverMutated ==
    /\ CATEGORIES = InitialCategories
    /\ (Answered /\ route = "show_category")
        => /\ status = 404 <=> category_slug \notin DOMAIN InitialCategories
           /\ status = 200 => page_title = InitialCategories[category_slug].title

\* C9: a recognized category is answered after an earlier request.
C9_Witness == warm /\ CategoryView /\ status = 200 /\ page_title = "Quilt"

(***************************************************************************)
(* C10.  The inline loop of the global view equals the specified pipeline: *)
(* when all titles are present its list is the result of normalizing each  *)
(* edge (current quantity 0 without variants), keeping the records with    *)
(* current quantity < 0 with needed quantity = -current quantity, and      *)
(* ranking them stably by descending needed quantity.                      *)
(***************************************************************************)
Normalize(es) ==
    [i \in 1..Len(es) |->
        [title |-> es[i].title[1], image_url |-> ImageOf(es[i]),
         current_qty |-> CurrentQuantity(es[i])]]
IsNegative(p) == p.current_qty < 0
Evaluate(ps) ==
    LET kept == SelectSeq(ps, IsNegative)
    IN  [i \in 1..Len(kept) |->
            [title |-> kept[i].title, image_url |-> kept[i].image_url,
             current_qty |-> kept[i].current_qty,
             needed_qty |-> 0 - kept[i].current_qty]]
Rank(as) ==
    LET n == Len(as)
        f == CHOOSE g \in [1..n -> 1..n] :
                \A k, l \in 1..n :
                    k < l => \/ as[g[k]].needed_qty > as[g[l]].needed_qty
                             \/ /\ as[g[k]].needed_qty = as[g[l]].needed_qty
                                /\ g[k] < g[l]
    IN  [k \in 1..n |-> as[f[k]]]

C10_InlineLoopEqualsPipeline ==
    (UrgentView /\ data.kind = "edges" /\ TitlesPresent)
        => /\ fault = ""
           /\ products = Rank(Evaluate(Normalize(Fetched)))

\* C10: a product without variants arrives before one with negative stock,
\* and only the second is listed.
C10_Witness ==
    /\ UrgentView /\ TitlesPresent
    /\ Len(Fetched) = 2
    /\ Fetched[1].variants = <<>>
    /\ Fetched[2].variants = <<-2>>
    /\ Len(products) = 1
    /\ products[1].needed_qty = 2

====
